---- MODULE Spec2Model ----
(***************************************************************************)
(* Model of the two passes of the match highlight pipeline:                *)
(*   analyze_local_pt.py        ValorantAnalyzerV2 (event extraction)      *)
(*   render_annotation_fixed.py create_tracking_highlight (renderer)       *)
(*                                                                         *)
(* Numbers.  fps is a float in the code; it is modelled as the exact       *)
(* rational fps.n / fps.d, so that int(fps * k) truncates and a test       *)
(* x < fps * k is decided exactly.  The renderer's float cursor is         *)
(* modelled as an exact rational as well (see the renderer section).       *)
(* The float cursor of the code accumulates rounding error: where the      *)
(* exact cursor lands on an integer the float may fall just below it and   *)
(* read one frame more, so the output count of the code can differ by one  *)
(* from the exact count on such inputs.  The properties checked below do   *)
(* not depend on that last frame.                                          *)
(***************************************************************************)
EXTENDS Integers, Sequences, FiniteSets, TLC

VARIABLES
    pc,                 \* position in the running pass
    fps,                \* cap.get(CAP_PROP_FPS) / data['fps'], [n, d]
    total_frames,       \* int(cap.get(CAP_PROP_FRAME_COUNT))
    trail_data,         \* self.trail_data
    raw_detections,     \* run_analysis: raw_detections
    confirmed_kills,    \* run_analysis: confirmed_kills
    events,             \* self.events / data['events']
    frame_shape,        \* run_analysis: [w, h] of the video's frames
    current_frame,      \* run_analysis: the frame loop's index
    is_spike_planted,   \* run_analysis: is_spike_planted
    preds,              \* run_analysis: preds, the last kill-log batch read
    is_event_frame,     \* renderer: the set of indices the mask flags
    speed_multiplier,   \* renderer: [n, d], the rational n / d
    current_input_frame,\* renderer: the cursor, in units of 1 / speed_multiplier.d
    output_frame_count, \* renderer: frames written
    in_event,           \* renderer: in_event of the last output step
    active_event,       \* renderer: index in events of the last active_event, 0 for None
    step                \* renderer: the last step, in units of 1 / speed_multiplier.d

scan_vars == <<frame_shape, current_frame, is_spike_planted, preds>>

analysis_vars == <<trail_data, raw_detections, confirmed_kills, scan_vars>>

render_vars == <<is_event_frame, speed_multiplier, current_input_frame,
                 output_frame_count, in_event, active_event, step>>

vars == <<pc, fps, total_frames, events, analysis_vars, render_vars>>

----------------------------------------------------------------------------
(* Arithmetic on the rational fps *)

\* x < fps * k, for integers x and k
LtFpsTimes(x, f, k) == x * f.d < f.n * k

\* int(fps * k): truncation of a non-negative product
IntFpsTimes(f, k) == (f.n * k) \div f.d

\* the value None of an event position
NoPos == [x |-> -1, y |-> -1]

----------------------------------------------------------------------------
(* _stabilize_kills_tuned *)

RECURSIVE CountOf(_, _)
CountOf(seq, v) ==
    IF seq = <<>> THEN 0
    ELSE (IF Head(seq) = v THEN 1 ELSE 0) + CountOf(Tail(seq), v)

\* Counter(seq).most_common(1)[0][0]: the most frequent element, the first
\* seen among equally frequent ones
MostCommon(seq) ==
    LET best == CHOOSE i \in 1..Len(seq) :
                    /\ \A j \in 1..Len(seq) : CountOf(seq, seq[j]) <= CountOf(seq, seq[i])
                    /\ \A j \in 1..(i-1) : CountOf(seq, seq[j]) < CountOf(seq, seq[i])
    IN seq[best]

SameGroupOneSecond(prev, curr, f) ==
    /\ curr.victim = prev.victim
    /\ LtFpsTimes(curr.frame - prev.frame, f, 1)

\* the test that keeps curr in the group of prev
SameGroup(prev, curr, f) ==
    /\ curr.victim = prev.victim
    /\ LtFpsTimes(curr.frame - prev.frame, f, 2)

RECURSIVE GroupFrom(_, _, _, _, _)
GroupFrom(raw, f, i, groups, current_group) ==
    IF i > Len(raw) THEN Append(groups, current_group)
    ELSE IF SameGroup(raw[i-1], raw[i], f)
         THEN GroupFrom(raw, f, i + 1, groups, Append(current_group, raw[i]))
         ELSE GroupFrom(raw, f, i + 1, Append(groups, current_group), <<raw[i]>>)

\* the groups of a non-empty list of raw detections
KillGroups(raw, f) == GroupFrom(raw, f, 2, <<>>, <<raw[1]>>)

GroupVoteLowerMiddle(group) ==
    [frame  |-> group[((Len(group) - 1) \div 2) + 1].frame,
     killer |-> MostCommon([i \in 1..Len(group) |-> group[i].killer]),
     victim |-> MostCommon([i \in 1..Len(group) |-> group[i].victim])]

\* the candidate a group of two or more detections votes for
GroupVote(group) ==
    [frame  |-> group[(Len(group) \div 2) + 1].frame,
     killer |-> MostCommon([i \in 1..Len(group) |-> group[i].killer]),
     victim |-> MostCommon([i \in 1..Len(group) |-> group[i].victim])]

RECURSIVE TempResults(_)
TempResults(groups) ==
    IF groups = <<>> THEN <<>>
    ELSE IF Len(Head(groups)) < 2 THEN TempResults(Tail(groups))
         ELSE <<GroupVote(Head(groups))>> \o TempResults(Tail(groups))

IsDuplicateKillShortWindow(curr, accepted_history, f) ==
    \E j \in 1..Len(accepted_history) :
        /\ accepted_history[j].killer = curr.killer
        /\ accepted_history[j].victim = curr.victim
        /\ LtFpsTimes(curr.frame - accepted_history[j].frame, f, 2)

\* is curr a repeat of a kill already accepted
IsDuplicateKill(curr, accepted_history, f) ==
    \E j \in 1..Len(accepted_history) :
        /\ accepted_history[j].killer = curr.killer
        /\ accepted_history[j].victim = curr.victim
        /\ LtFpsTimes(curr.frame - accepted_history[j].frame, f, 5)

RECURSIVE DedupKills(_, _, _)
DedupKills(temp_results, f, accepted_history) ==
    IF temp_results = <<>> THEN accepted_history
    ELSE IF IsDuplicateKill(Head(temp_results), accepted_history, f)
         THEN DedupKills(Tail(temp_results), f, accepted_history)
         ELSE DedupKills(Tail(temp_results), f, Append(accepted_history, Head(temp_results)))

StabilizeKillsTuned(raw, f) ==
    IF raw = <<>> THEN <<>>
    ELSE DedupKills(TempResults(KillGroups(raw, f)), f, <<>>)

----------------------------------------------------------------------------
(* Labels.  A trail record is [frame, class, x, y]; its colour is a function *)
(* of the class alone and is left out.                                       *)

\* self.TACTICAL_LABELS
TacticalCategory(cls) ==
    CASE cls \in {"smoke", "smoke_friend", "smoke_enemy"}      -> "Area Control"
      [] cls \in {"astra_ult_enemy", "astra_ult_friend",
                  "viper_pit_enemy", "viper_pit_friend"}        -> "Ultimate"
      [] cls \in {"fade_haunt_f", "fade_prowler_f", "sova_drone_e",
                  "sova_recon_e", "skye_dog_e", "skye_bird_e"}  -> "Recon"
      [] OTHER                                                  -> ""

IsTactical(cls) == TacticalCategory(cls) # ""

\* "friend" in cls_name or cls_name.endswith("_f"), over the labels of the model
IsFriendlyTagged(cls) ==
    cls \in {"smoke_friend", "astra_ult_friend", "viper_pit_friend",
             "astra_star_friend", "fade_haunt_f", "fade_prowler_f",
             "sage_f", "omen_f"}

Abs(n) == IF n < 0 THEN -n ELSE n

\* squared planar distance of two positions
DistSq(p, q) == (p.x - q.x) * (p.x - q.x) + (p.y - q.y) * (p.y - q.y)

----------------------------------------------------------------------------
(* _find_agent_pos *)

RECURSIVE NearestFrame(_, _, _, _)
\* min(candidates, key=|frame distance|): the first of the nearest candidates
NearestFrame(candidates, frame, i, best) ==
    IF i > Len(candidates) THEN best
    ELSE IF Abs(candidates[i].frame - frame) < Abs(best.frame - frame)
         THEN NearestFrame(candidates, frame, i + 1, candidates[i])
         ELSE NearestFrame(candidates, frame, i + 1, best)

FindAgentPos(trail, frame, agent_name, search_range, look_back) ==
    LET InRange(t) ==
            /\ IF look_back
               THEN (frame - t.frame) >= 0 /\ (frame - t.frame) < search_range
               ELSE Abs(t.frame - frame) < search_range
            /\ t.class = agent_name
        candidates == SelectSeq(trail, InRange)
    IN IF candidates = <<>> THEN NoPos
       ELSE LET best == NearestFrame(candidates, frame, 2, candidates[1])
            IN [x |-> best.x, y |-> best.y]

----------------------------------------------------------------------------
(* run_analysis: the event sequencer *)

RECURSIVE InsertByFrame(_, _)
\* e put behind every element whose frame is not greater (a stable sort)
InsertByFrame(sorted, e) ==
    IF sorted = <<>> THEN <<e>>
    ELSE IF Head(sorted).frame <= e.frame
         THEN <<Head(sorted)>> \o InsertByFrame(Tail(sorted), e)
         ELSE <<e>> \o sorted

RECURSIVE SortByFrame(_)
\* list.sort(key=lambda x: x['frame'])
SortByFrame(seq) ==
    IF seq = <<>> THEN <<>>
    ELSE InsertByFrame(SortByFrame(SubSeq(seq, 1, Len(seq) - 1)), seq[Len(seq)])

KillEventTypeLastFirst(i, n, kill, last_kill_time_by_player, f) ==
    IF i = n THEN "last_kill"
    ELSE IF i = 1 THEN "first_blood"
    ELSE IF /\ kill.killer \in DOMAIN last_kill_time_by_player
            /\ LtFpsTimes(kill.frame - last_kill_time_by_player[kill.killer], f, 3)
         THEN "multi_kill"
         ELSE "kill"

KillEventTypeTwoSeconds(i, n, kill, last_kill_time_by_player, f) ==
    IF i = 1 THEN "first_blood"
    ELSE IF i = n THEN "last_kill"
    ELSE IF /\ kill.killer \in DOMAIN last_kill_time_by_player
            /\ LtFpsTimes(kill.frame - last_kill_time_by_player[kill.killer], f, 2)
         THEN "multi_kill"
         ELSE "kill"

\* the tag of the i-th of n sorted kills
KillEventType(i, n, kill, last_kill_time_by_player, f) ==
    IF i = 1 THEN "first_blood"
    ELSE IF i = n THEN "last_kill"
    ELSE IF /\ kill.killer \in DOMAIN last_kill_time_by_player
            /\ LtFpsTimes(kill.frame - last_kill_time_by_player[kill.killer], f, 3)
         THEN "multi_kill"
         ELSE "kill"

\* the event written for a tagged kill
KillEvent(kill, event_type, trail) ==
    [frame       |-> kill.frame,
     type        |-> event_type,
     killer      |-> kill.killer,
     victim      |-> kill.victim,
     k_pos       |-> FindAgentPos(trail, kill.frame, kill.killer, 90, TRUE),
     v_pos       |-> FindAgentPos(trail, kill.frame, kill.victim, 90, TRUE),
     type_detail |-> "",
     category    |-> ""]

RECURSIVE TagKills(_, _, _, _, _, _)
\* the loop over the sorted kills; evs is self.events
TagKills(kills, i, last_kill_time_by_player, trail, f, evs) ==
    IF i > Len(kills) THEN evs
    ELSE LET kill       == kills[i]
             event_type == KillEventType(i, Len(kills), kill, last_kill_time_by_player, f)
             last2      == [p \in DOMAIN last_kill_time_by_player \cup {kill.killer} |->
                               IF p = kill.killer THEN kill.frame
                               ELSE last_kill_time_by_player[p]]
         IN TagKills(kills, i + 1, last2, trail, f,
                     IF event_type \in {"first_blood", "multi_kill", "last_kill"}
                     THEN Append(evs, KillEvent(kill, event_type, trail))
                     ELSE evs)

EmptyMap == [p \in {} |-> 0]

----------------------------------------------------------------------------
(* _classify_smokes *)

RECURSIVE NearestStar(_, _, _, _, _, _, _)
\* the two loops over the friendly and the enemy stars, run one after the
\* other over stars; min_dsq is min_dist squared
NearestStar(stars, t, min_frame, i, min_dsq, found_type, radius_sq) ==
    IF i > Len(stars) THEN found_type
    ELSE LET star == stars[i]
             dsq  == DistSq(t, star)
         IN IF /\ min_frame <= star.frame
               /\ star.frame <= t.frame
               /\ dsq < radius_sq
               /\ dsq < min_dsq
            THEN NearestStar(stars, t, min_frame, i + 1, dsq,
                             IF star.class = "astra_star_friend"
                             THEN "smoke_friend" ELSE "smoke_enemy", radius_sq)
            ELSE NearestStar(stars, t, min_frame, i + 1, min_dsq, found_type, radius_sq)

SmokeTypeEnemyFirst(t, trail, f) ==
    LET IsFriendStar(s) == s.class = "astra_star_friend"
        IsEnemyStar(s)  == s.class = "astra_star_enemy"
        stars     == SelectSeq(trail, IsEnemyStar) \o SelectSeq(trail, IsFriendStar)
        min_frame == t.frame - IntFpsTimes(f, 5)
    IN NearestStar(stars, t, min_frame, 1, 999 * 999, "smoke", 30 * 30)

\* the label a record labelled "smoke" gets
SmokeType(t, trail, f) ==
    LET IsFriendStar(s) == s.class = "astra_star_friend"
        IsEnemyStar(s)  == s.class = "astra_star_enemy"
        stars     == SelectSeq(trail, IsFriendStar) \o SelectSeq(trail, IsEnemyStar)
        min_frame == t.frame - IntFpsTimes(f, 5)
    IN NearestStar(stars, t, min_frame, 1, 999 * 999, "smoke", 30 * 30)

ClassifySmokesOf(trail, f) ==
    [i \in 1..Len(trail) |->
        IF trail[i].class = "smoke"
        THEN [trail[i] EXCEPT !.class = SmokeType(trail[i], trail, f)]
        ELSE trail[i]]

----------------------------------------------------------------------------
(* _analyze_focal_points *)

\* ev['k_pos'] if ev['k_pos'] else ev['v_pos']
AnchorPos(ev) == IF ev.k_pos # NoPos THEN ev.k_pos ELSE ev.v_pos

\* WINDOW_MIN < delta_frames / fps < WINDOW_MAX
InFocalWindow(delta_frames, f) ==
    /\ 1 * f.n < delta_frames * f.d
    /\ delta_frames * f.d < 10 * f.n

FocalCandidateAnyFaction(ev, ab, f) == InFocalWindow(ev.frame - ab.frame, f)

\* the candidates the scoring loop does not skip
FocalCandidate(ev, ab, f) ==
    /\ ~ (ev.type = "spike_plant" /\ IsFriendlyTagged(ab.class))
    /\ InFocalWindow(ev.frame - ab.frame, f)

RECURSIVE GCD(_, _)
\* the greatest common divisor of two naturals, not both 0
GCD(a, b) == IF b = 0 THEN a ELSE GCD(b, a % b)

\* (delta_frames / unit)^4 * max(dist,1)^2.  score = fps^2 / (delta_frames^2
\* * dist), so for one event and one unit a score is greater exactly when this
\* number is smaller.
FocalCost(ev, ab, unit) ==
    LET delta == (ev.frame - ab.frame) \div unit
        dsq0  == DistSq(AnchorPos(ev), ab)
        dsq   == IF dsq0 < 1 THEN 1 ELSE dsq0
    IN delta * delta * delta * delta * dsq

\* score(ab) > score(other), both inside the window of ev; the common factor
\* of the two delays is divided out before the fourth powers are taken
ScoreGreater(ev, ab, other) ==
    LET unit == GCD(ev.frame - ab.frame, ev.frame - other.frame)
    IN FocalCost(ev, ab, unit) < FocalCost(ev, other, unit)

RECURSIVE BestAbilityFirstCandidate(_, _, _, _, _)
BestAbilityFirstCandidate(ability_actions, ev, f, i, best) ==
    IF i > Len(ability_actions) THEN best
    ELSE IF FocalCandidate(ev, ability_actions[i], f) /\ best = 0
         THEN BestAbilityFirstCandidate(ability_actions, ev, f, i + 1, i)
         ELSE BestAbilityFirstCandidate(ability_actions, ev, f, i + 1, best)

RECURSIVE BestAbility(_, _, _, _, _)
\* the scoring loop: best is the index of best_ability, 0 for None
BestAbility(ability_actions, ev, f, i, best) ==
    IF i > Len(ability_actions) THEN best
    ELSE IF /\ FocalCandidate(ev, ability_actions[i], f)
            /\ (best = 0 \/ ScoreGreater(ev, ability_actions[i], ability_actions[best]))
         THEN BestAbility(ability_actions, ev, f, i + 1, i)
         ELSE BestAbility(ability_actions, ev, f, i + 1, best)

\* max_score > 0.01, that is delta_t^2 * dist < 100, with delta_t = p / q in
\* lowest terms
AboveScoreFloor(ev, ab, f) ==
    LET num  == (ev.frame - ab.frame) * f.d
        g    == GCD(num, f.n)
        p    == num \div g
        q    == f.n \div g
        dsq0 == DistSq(AnchorPos(ev), ab)
        dsq  == IF dsq0 < 1 THEN 1 ELSE dsq0
    IN p * p * p * p * dsq < 10000 * q * q * q * q

IsDuplicateFocalOff(best_ability, new_focal_events) == FALSE

\* was this cast already credited
IsDuplicateFocal(best_ability, new_focal_events) ==
    \E j \in 1..Len(new_focal_events) :
        /\ new_focal_events[j].type_detail = best_ability.class
        /\ Abs(new_focal_events[j].frame - best_ability.frame) < 10

FocalEvent(best_ability) ==
    [frame       |-> best_ability.frame,
     type        |-> "focal_point",
     killer      |-> TacticalCategory(best_ability.class),
     victim      |-> "",
     k_pos       |-> [x |-> best_ability.x, y |-> best_ability.y],
     v_pos       |-> NoPos,
     type_detail |-> best_ability.class,
     category    |-> TacticalCategory(best_ability.class)]

RECURSIVE FocalLoop(_, _, _, _, _)
\* the loop over self.events; the result is new_focal_events
FocalLoop(evs, i, ability_actions, f, new_focal_events) ==
    IF i > Len(evs) THEN new_focal_events
    ELSE LET ev   == evs[i]
             best == BestAbility(ability_actions, ev, f, 1, 0)
         IN IF ev.type = "focal_point" \/ AnchorPos(ev) = NoPos \/ best = 0
            THEN FocalLoop(evs, i + 1, ability_actions, f, new_focal_events)
            ELSE IF /\ AboveScoreFloor(ev, ability_actions[best], f)
                    /\ ~ IsDuplicateFocal(ability_actions[best], new_focal_events)
                 THEN FocalLoop(evs, i + 1, ability_actions, f,
                                Append(new_focal_events, FocalEvent(ability_actions[best])))
                 ELSE FocalLoop(evs, i + 1, ability_actions, f, new_focal_events)

AnalyzeFocalPointsOf(evs, trail, f) ==
    LET IsAbility(t) == IsTactical(t.class)
    IN evs \o FocalLoop(evs, 1, SelectSeq(trail, IsAbility), f, <<>>)

----------------------------------------------------------------------------
(* run_analysis after the frame loop: one action per stage, in program order *)

\* self._classify_smokes(fps)
ClassifySmokes ==
    /\ pc = "classify"
    /\ trail_data' = ClassifySmokesOf(trail_data, fps)
    /\ pc' = "stabilize"
    /\ UNCHANGED <<fps, total_frames, raw_detections, confirmed_kills, events, render_vars, scan_vars>>

\* confirmed_kills = self._stabilize_kills_tuned(raw_detections, fps)
StabilizeKills ==
    /\ pc = "stabilize"
    /\ confirmed_kills' = StabilizeKillsTuned(raw_detections, fps)
    /\ pc' = "sequence"
    /\ UNCHANGED <<fps, total_frames, trail_data, raw_detections, events, render_vars, scan_vars>>

\* if confirmed_kills: sort, tag, append the distinguished kills to self.events
SequenceKills ==
    /\ pc = "sequence"
    /\ confirmed_kills' = SortByFrame(confirmed_kills)
    /\ events' = TagKills(SortByFrame(confirmed_kills), 1, EmptyMap, trail_data, fps, events)
    /\ pc' = "focal"
    /\ UNCHANGED <<fps, total_frames, trail_data, raw_detections, render_vars, scan_vars>>

\* self._analyze_focal_points(fps)
AnalyzeFocalPoints ==
    /\ pc = "focal"
    /\ events' = AnalyzeFocalPointsOf(events, trail_data, fps)
    /\ pc' = "save"
    /\ UNCHANGED <<fps, total_frames, trail_data, raw_detections, confirmed_kills, render_vars, scan_vars>>

\* self.events.sort(key=frame); json.dump(...)
SaveMatchData ==
    /\ pc = "save"
    /\ events' = SortByFrame(events)
    /\ pc' = "analysed"
    /\ UNCHANGED <<fps, total_frames, trail_data, raw_detections, confirmed_kills, render_vars, scan_vars>>

----------------------------------------------------------------------------
(* The kill stabilizer and the sequencer on every bounded input *)

MaxRaw == 4
RawFrames == {100, 105, 111, 120}
KillerLabels == {"jett_e", "reyna_e"}
VictimLabels == {"sage_f", "omen_f"}
KillFps == {[n |-> 3, d |-> 1], [n |-> 5, d |-> 2]}

\* the raw detection list of the frames fs and the (killer, victim) pairs ps
RawList(fs, ps) ==
    [i \in 1..Len(fs) |-> [frame |-> fs[i], killer |-> ps[i][1], victim |-> ps[i][2]]]

\* raw is an ordered raw detection list of at most MaxRaw detections
IsRawInput(raw) ==
    \E n \in 0..MaxRaw :
        \E fs \in [1..n -> RawFrames] :
            /\ \A i \in 1..(n - 1) : fs[i] <= fs[i+1]
            /\ \E ps \in [1..n -> KillerLabels \X VictimLabels] : raw = RawList(fs, ps)

\* the trails the kill positions are looked up in
KillTrails ==
    {<<>>,
     <<[frame |-> 90, class |-> "smoke_enemy", x |-> 50, y |-> 50],
       [frame |-> 101, class |-> "jett_e", x |-> 52, y |-> 51],
       [frame |-> 104, class |-> "jett_e", x |-> 60, y |-> 40]>>}

\* the frame loop of a run that is past it
ScanOver ==
    /\ frame_shape = [w |-> 1920, h |-> 1080]
    /\ current_frame = total_frames
    /\ is_spike_planted = FALSE
    /\ preds = <<>>

\* no analysis state: the renderer reads the saved record only
AnalysisIdle ==
    /\ trail_data = <<>>
    /\ raw_detections = <<>>
    /\ confirmed_kills = <<>>
    /\ frame_shape = [w |-> 1920, h |-> 1080]
    /\ current_frame = 0
    /\ is_spike_planted = FALSE
    /\ preds = <<>>

\* the renderer has not started
RenderIdle ==
    /\ is_event_frame = {}
    /\ speed_multiplier = [n |-> 1, d |-> 1]
    /\ current_input_frame = 0
    /\ output_frame_count = 0
    /\ in_event = FALSE
    /\ active_event = 0
    /\ step = 0

InitKills ==
    /\ RenderIdle
    /\ pc = "stabilize"
    /\ fps \in KillFps
    /\ total_frames = 121
    /\ trail_data \in KillTrails
    /\ IsRawInput(raw_detections)
    /\ confirmed_kills = <<>>
    /\ events = <<>>
    /\ ScanOver

NextKills == StabilizeKills \/ SequenceKills \/ AnalyzeFocalPoints \/ SaveMatchData

SpecKills == InitKills /\ [][NextKills]_vars

----------------------------------------------------------------------------
(* Claims on the kill stabilizer and the event sequencer (SpecKills) *)

SamePair(k1, k2) == k1.killer = k2.killer /\ k1.victim = k2.victim

\* the events of one type that report the kill k
EventsOfKill(k, type) ==
    {i \in 1..Len(events) :
        /\ events[i].type = type
        /\ events[i].frame = k.frame
        /\ events[i].killer = k.killer
        /\ events[i].victim = k.victim}

EventsOfType(type) == {i \in 1..Len(events) : events[i].type = type}

Sequenced == pc \in {"focal", "save", "analysed"}

\* C1: any two kills returned by _stabilize_kills_tuned with the same
\* (killer, victim) pair have frames at least 5*fps apart.
C1_KillDedupSpacing ==
    \A i \in 1..Len(confirmed_kills) : \A j \in (i+1)..Len(confirmed_kills) :
        SamePair(confirmed_kills[i], confirmed_kills[j]) =>
            Abs(confirmed_kills[j].frame - confirmed_kills[i].frame) * fps.d >= 5 * fps.n

\* two kills of the same pair were both returned
C1_Witness ==
    /\ pc = "sequence"
    /\ Len(confirmed_kills) = 2
    /\ SamePair(confirmed_kills[1], confirmed_kills[2])

\* C3: with two or more confirmed kills the kill with the lowest frame is
\* emitted as first_blood and the kill with the highest frame as last_kill;
\* with exactly one confirmed kill the run yields exactly one first_blood
\* event and no last_kill event.
C3_FirstAndLastKill ==
    Sequenced =>
        LET n == Len(confirmed_kills)
            Lowest(k)  == \A j \in 1..n : k.frame <= confirmed_kills[j].frame
            Highest(k) == \A j \in 1..n : k.frame >= confirmed_kills[j].frame
        IN /\ n >= 2 =>
                /\ \E i \in 1..n : /\ Lowest(confirmed_kills[i])
                                   /\ EventsOfKill(confirmed_kills[i], "first_blood") # {}
                /\ \E i \in 1..n : /\ Highest(confirmed_kills[i])
                                   /\ EventsOfKill(confirmed_kills[i], "last_kill") # {}
           /\ n = 1 =>
                /\ Cardinality(EventsOfType("first_blood")) = 1
                /\ EventsOfKill(confirmed_kills[1], "first_blood") # {}
                /\ EventsOfType("last_kill") = {}

\* two kills were confirmed and sequenced
C3_Witness ==
    /\ pc = "focal"
    /\ Len(confirmed_kills) = 2
    /\ confirmed_kills[1].frame < confirmed_kills[2].frame
    /\ EventsOfType("first_blood") # {}
    /\ EventsOfType("last_kill") # {}

\* Scenario A: the only raw detections are two of one pair at frames 100 and
\* 105, less than 2*fps apart
ScenarioA ==
    /\ Len(raw_detections) = 2
    /\ raw_detections[1].frame = 100
    /\ raw_detections[2].frame = 105
    /\ SamePair(raw_detections[1], raw_detections[2])
    /\ LtFpsTimes(105 - 100, fps, 2)

\* C4 as stated: in scenario A the stabilizer yields exactly one confirmed
\* kill with frame in 100..105, and that kill is tagged first_blood and
\* last_kill in the event list.
C4_ScenarioA_AsStated ==
    (Sequenced /\ ScenarioA) =>
        /\ Len(confirmed_kills) = 1
        /\ confirmed_kills[1].frame \in 100..105
        /\ EventsOfKill(confirmed_kills[1], "first_blood") # {}
        /\ EventsOfKill(confirmed_kills[1], "last_kill") # {}

\* C4 amended: in scenario A the stabilizer yields exactly one confirmed kill
\* with frame in 100..105, and that kill is tagged first_blood only: the event
\* list holds one first_blood event, which reports it, and no last_kill event.
C4_ScenarioA ==
    (Sequenced /\ ScenarioA) =>
        /\ Len(confirmed_kills) = 1
        /\ confirmed_kills[1].frame \in 100..105
        /\ confirmed_kills[1].killer = raw_detections[1].killer
        /\ confirmed_kills[1].victim = raw_detections[1].victim
        /\ Cardinality(EventsOfType("first_blood")) = 1
        /\ EventsOfKill(confirmed_kills[1], "first_blood") # {}
        /\ EventsOfType("last_kill") = {}

\* scenario A has been stabilized and sequenced
C4_Witness == pc = "focal" /\ ScenarioA /\ Len(confirmed_kills) = 1

\* the kill stabilizer has returned and the kills are not yet sorted
Stabilized == pc = "sequence"

\* the positions of raw_detections that open a run: the first, and every
\* detection that changes the victim or comes 2*fps frames or more after its
\* predecessor
RunStarts ==
    {i \in 1..Len(raw_detections) :
        \/ i = 1
        \/ raw_detections[i].victim # raw_detections[i-1].victim
        \/ (raw_detections[i].frame - raw_detections[i-1].frame) * fps.d >= 2 * fps.n}

\* the last position of the run that opens at s
RunEnd(s) ==
    CHOOSE e \in s..Len(raw_detections) :
        /\ \A j \in (s+1)..e : j \notin RunStarts
        /\ e = Len(raw_detections) \/ e + 1 \in RunStarts

RunLen(s) == RunEnd(s) - s + 1

\* how often the killer k is named in the run that opens at s
KillerCount(s, k) ==
    Cardinality({j \in s..RunEnd(s) : raw_detections[j].killer = k})

\* the position in the run of its most frequent killer, the first seen among
\* the equally frequent
TopKillerAt(s) ==
    CHOOSE i \in s..RunEnd(s) :
        /\ \A j \in s..RunEnd(s) :
              KillerCount(s, raw_detections[j].killer)
                  <= KillerCount(s, raw_detections[i].killer)
        /\ \A j \in s..(i-1) :
              KillerCount(s, raw_detections[j].killer)
                  < KillerCount(s, raw_detections[i].killer)

\* the candidate of the run that opens at s
RunCandidate(s) ==
    [frame  |-> raw_detections[s + (RunLen(s) \div 2)].frame,
     killer |-> raw_detections[TopKillerAt(s)].killer,
     victim |-> raw_detections[s].victim]

\* the runs of two or more detections, and their candidates in list order
LongRuns == {s \in RunStarts : RunLen(s) >= 2}

NthLongRun(k) ==
    CHOOSE s \in LongRuns : Cardinality({t \in LongRuns : t < s}) = k - 1

RunCandidates == [k \in 1..Cardinality(LongRuns) |-> RunCandidate(NthLongRun(k))]

\* the candidates that are no repeat of a candidate already accepted
RECURSIVE Accepted(_, _)
Accepted(cands, kept) ==
    IF cands = <<>> THEN kept
    ELSE LET c == Head(cands)
             repeat == \E j \in 1..Len(kept) :
                          /\ SamePair(kept[j], c)
                          /\ (c.frame - kept[j].frame) * fps.d < 5 * fps.n
         IN Accepted(Tail(cands), IF repeat THEN kept ELSE Append(kept, c))

\* C17: the raw kill detections are split into maximal runs of consecutive
\* detections in which each detection has the victim of its predecessor and
\* comes less than 2*fps frames after it; a run of length 1 gives no
\* confirmed kill; each run of length two or more gives one candidate, with
\* the frame of the run's element at index len//2, the run's most frequent
\* killer (the first seen on ties) and the run's common victim.  The kills
\* returned are these candidates, in order, less the repeats.
C17_GroupingAndVote ==
    Stabilized =>
        /\ confirmed_kills = Accepted(RunCandidates, <<>>)
        /\ LongRuns = {} => confirmed_kills = <<>>
        /\ LongRuns # {} => confirmed_kills[1] = RunCandidate(NthLongRun(1))
        /\ \A i \in 1..Len(confirmed_kills) :
              \E s \in LongRuns : confirmed_kills[i] = RunCandidate(s)

\* a run of three detections that name two killers has voted, next to a run
\* of one detection that gave no kill
C17_Witness ==
    /\ Stabilized
    /\ \E s \in LongRuns :
          /\ RunLen(s) = 3
          /\ \E j \in s..RunEnd(s) : raw_detections[j].killer # raw_detections[s].killer
          /\ \E i \in 1..Len(confirmed_kills) : confirmed_kills[i] = RunCandidate(s)
    /\ \E s \in RunStarts : RunLen(s) = 1
    /\ Len(confirmed_kills) = 1

----------------------------------------------------------------------------
(* create_tracking_highlight.  The cursor current_input_frame is a float in *)
(* the code, advanced by 1.0 or by speed_multiplier = N / (T - E); it is    *)
(* modelled exactly, as a number of units of 1 / speed_multiplier.d.  The   *)
(* camera and the drawing read the cursor and the active event and feed     *)
(* nothing back into the stepping; they are left out.                       *)

TARGET_DURATION_SEC == 30

IsKillClass(type) == type \notin {"spike_plant", "focal_point"}

\* the pre and post lengths of an event's window: KILL_PRE .. FOCAL_POST
WindowPre(type, f) ==
    IF type = "spike_plant" THEN IntFpsTimes(f, 3)
    ELSE IF type = "focal_point" THEN IntFpsTimes(f, 5)
    ELSE IntFpsTimes(f, 3)

WindowPost(type, f) ==
    IF type = "spike_plant" THEN IntFpsTimes(f, 2)
    ELSE IF type = "focal_point" THEN IntFpsTimes(f, 3)
    ELSE IntFpsTimes(f, 3)

WindowStart(ev, f) == ev.frame - WindowPre(ev.type, f)
WindowEnd(ev, f)   == ev.frame + WindowPost(ev.type, f)

Max(a, b) == IF a > b THEN a ELSE b
Min(a, b) == IF a < b THEN a ELSE b

MaskSliceClosed(ev, f, total) ==
    {i \in 0..(total - 1) :
        Max(0, WindowStart(ev, f)) <= i /\ i <= Min(total, WindowEnd(ev, f))}

\* the indices is_event_frame[s:e] = True sets, s = max(0, start), e = min(total, end)
MaskSlice(ev, f, total) ==
    {i \in 0..(total - 1) :
        Max(0, WindowStart(ev, f)) <= i /\ i < Min(total, WindowEnd(ev, f))}

\* the mask after the loop over the events
EventMask(evs, f, total) == UNION {MaskSlice(evs[i], f, total) : i \in 1..Len(evs)}

SpeedMultiplierIntegerDivision(event_frames_count, f, total) ==
    LET available == IntFpsTimes(f, TARGET_DURATION_SEC) - event_frames_count
    IN IF available <= 0 THEN [n |-> 100, d |-> 1]
       ELSE [n |-> (total - event_frames_count) \div available, d |-> 1]

\* speed_multiplier from the count of event frames
SpeedMultiplierOf(event_frames_count, f, total) ==
    LET normal_frames_count         == total - event_frames_count
        target_total_output_frames  == IntFpsTimes(f, TARGET_DURATION_SEC)
        available_frames_for_normal == target_total_output_frames - event_frames_count
    IN IF available_frames_for_normal <= 0 THEN [n |-> 100, d |-> 1]
       ELSE [n |-> normal_frames_count, d |-> available_frames_for_normal]

\* the mask, the multiplier and the loop's initial state
ComputeSpeed ==
    /\ pc = "speed"
    /\ is_event_frame' = EventMask(events, fps, total_frames)
    /\ speed_multiplier' =
           SpeedMultiplierOf(Cardinality(EventMask(events, fps, total_frames)), fps, total_frames)
    /\ current_input_frame' = 0
    /\ output_frame_count' = 0
    /\ pc' = "loop"
    /\ UNCHANGED <<fps, total_frames, events, analysis_vars, in_event, active_event, step>>

GetPriorityFocalFirst(type) ==
    IF type \in {"kill", "multi_kill", "first_blood", "last_kill"} THEN 10
    ELSE IF type = "spike_plant" THEN 50
    ELSE IF type = "focal_point" THEN 100
    ELSE 0

\* get_priority
GetPriority(type) ==
    IF type \in {"kill", "multi_kill", "first_blood", "last_kill"} THEN 100
    ELSE IF type = "spike_plant" THEN 50
    ELSE IF type = "focal_point" THEN 10
    ELSE 0

\* start <= current_input_frame <= end, the cursor being c / d
InWindow(ev, f, c, d) == WindowStart(ev, f) * d <= c /\ c <= WindowEnd(ev, f) * d

RECURSIVE MaxByPriority(_, _, _, _)
\* max(candidates, key=get_priority): the first candidate of the highest priority
MaxByPriority(evs, candidates, i, best) ==
    IF i > Len(candidates) THEN best
    ELSE IF GetPriority(evs[candidates[i]].type) > GetPriority(evs[best].type)
         THEN MaxByPriority(evs, candidates, i + 1, candidates[i])
         ELSE MaxByPriority(evs, candidates, i + 1, best)

RECURSIVE Candidates(_, _, _, _, _)
\* the indices of the events whose window holds the cursor, in list order
Candidates(evs, f, c, d, i) ==
    IF i > Len(evs) THEN <<>>
    ELSE (IF InWindow(evs[i], f, c, d) THEN <<i>> ELSE <<>>) \o Candidates(evs, f, c, d, i + 1)

\* active_event as an index, 0 for None
ActiveEvent(evs, f, c, d) ==
    LET candidates == Candidates(evs, f, c, d, 1)
    IN IF candidates = <<>> THEN 0
       ELSE MaxByPriority(evs, candidates, 2, candidates[1])

\* step = 1.0 if in_event else speed_multiplier, in units of 1 / d
StepOf(in_ev, mult) == IF in_ev THEN mult.d ELSE mult.n

\* one pass of the while loop in which both frame reads succeed; key is
\* whether cv2.waitKey reports the quit key after the frame was written
RenderStep(key) ==
    /\ pc = "loop"
    /\ current_input_frame < total_frames * speed_multiplier.d
    /\ LET current_frame_int == current_input_frame \div speed_multiplier.d
           now_in_event      == current_frame_int \in is_event_frame
       IN /\ in_event' = now_in_event
          /\ active_event' = ActiveEvent(events, fps, current_input_frame, speed_multiplier.d)
          /\ output_frame_count' = output_frame_count + 1
          /\ step' = StepOf(now_in_event, speed_multiplier)
          /\ current_input_frame' = current_input_frame + StepOf(now_in_event, speed_multiplier)
    /\ pc' = IF key THEN "interrupted" ELSE "loop"
    /\ UNCHANGED <<fps, total_frames, events, analysis_vars, is_event_frame, speed_multiplier>>

\* a pass of the while loop in which a frame read fails: break before writing
ReadFails ==
    /\ pc = "loop"
    /\ current_input_frame < total_frames * speed_multiplier.d
    /\ pc' = "read_failed"
    /\ UNCHANGED <<fps, total_frames, events, analysis_vars, render_vars>>

\* the while condition fails: release the videos
FinishRender ==
    /\ pc = "loop"
    /\ current_input_frame >= total_frames * speed_multiplier.d
    /\ pc' = "rendered"
    /\ UNCHANGED <<fps, total_frames, events, analysis_vars, render_vars>>

----------------------------------------------------------------------------
(* The renderer on every bounded match record *)

MaxRenderEvents == 4
RenderFrames == {2, 5, 13, 21, 29}
RenderVideos ==
    {[fps |-> [n |-> 1, d |-> 1], total_frames |-> 150],
     [fps |-> [n |-> 1, d |-> 1], total_frames |-> 40],
     [fps |-> [n |-> 1, d |-> 2], total_frames |-> 6]}

\* an event of the record: its frame and its class, "kill" for the kill class
RenderSlots == [frame : RenderFrames, class : {"spike_plant", "kill", "focal_point"}]

\* the order the analysis saves events of one frame in: plant, kills, focal points
ClassRank(class) ==
    IF class = "spike_plant" THEN 1 ELSE IF class = "kill" THEN 2 ELSE 3

SlotBefore(a, b) ==
    \/ a.frame < b.frame
    \/ a.frame = b.frame /\ ClassRank(a.class) < ClassRank(b.class)

RECURSIVE SlotSeq(_)
\* the slots of a set, sorted by frame
SlotSeq(S) ==
    IF S = {} THEN <<>>
    ELSE LET m == CHOOSE a \in S : \A b \in S \ {a} : SlotBefore(a, b)
         IN <<m>> \o SlotSeq(S \ {m})

\* the tag of the k-th of n kills when the interior kills shown are multi kills
KillTag(k, n) ==
    IF k = 1 THEN "first_blood" ELSE IF k = n THEN "last_kill" ELSE "multi_kill"

\* the saved events of a sorted list of slots
RecordEvents(slots) ==
    LET KillsUpTo(i) == Cardinality({j \in 1..i : slots[j].class = "kill"})
        n            == KillsUpTo(Len(slots))
    IN [i \in 1..Len(slots) |->
          [frame       |-> slots[i].frame,
           type        |-> IF slots[i].class = "kill" THEN KillTag(KillsUpTo(i), n)
                           ELSE slots[i].class,
           killer      |-> IF slots[i].class = "kill" THEN "jett_e"
                           ELSE IF slots[i].class = "spike_plant" THEN "Spike"
                           ELSE "Area Control",
           victim      |-> IF slots[i].class = "kill" THEN "sage_f"
                           ELSE IF slots[i].class = "spike_plant" THEN "Site"
                           ELSE "",
           k_pos       |-> IF slots[i].class = "kill" THEN NoPos ELSE [x |-> 50, y |-> 50],
           v_pos       |-> IF slots[i].class = "spike_plant" THEN [x |-> 50, y |-> 50] ELSE NoPos,
           type_detail |-> IF slots[i].class = "focal_point" THEN "smoke_enemy" ELSE "",
           category    |-> IF slots[i].class = "focal_point" THEN "Area Control" ELSE ""]]

\* the records of a video: at most MaxRenderEvents events inside the video,
\* at most one of them a plant
RenderEventLists(total) ==
    {RecordEvents(SlotSeq(S)) :
        S \in {S \in SUBSET {a \in RenderSlots : a.frame < total} :
                  /\ Cardinality(S) <= MaxRenderEvents
                  /\ Cardinality({a \in S : a.class = "spike_plant"}) <= 1}}

InitRender ==
    /\ pc = "speed"
    /\ \E v \in RenderVideos :
          /\ fps = v.fps
          /\ total_frames = v.total_frames
          /\ events \in RenderEventLists(v.total_frames)
    /\ AnalysisIdle
    /\ RenderIdle

NextRender ==
    \/ ComputeSpeed
    \/ \E key \in BOOLEAN : RenderStep(key)
    \/ ReadFails
    \/ FinishRender

SpecRender == InitRender /\ [][NextRender]_vars

\* the loop is sequential code: it takes its next pass whenever there is one
FairSpecRender == SpecRender /\ WF_vars(NextRender)

----------------------------------------------------------------------------
(* Claims on the renderer (SpecRender, FairSpecRender) *)

Stepped == output_frame_count > 0

\* the cursor of the last output step, in units of 1 / speed_multiplier.d
StepCursor == current_input_frame - step

\* the events of a class whose pre/post window, start <= cursor <= end with
\* the sizes of section 4.8, holds the cursor of the last output step
WindowsAtStep(types) ==
    {i \in 1..Len(events) :
        /\ events[i].type \in types
        /\ LET pre  == IF events[i].type = "focal_point" THEN 5 ELSE 3
               post == IF events[i].type = "spike_plant" THEN 2 ELSE 3
           IN /\ (events[i].frame - IntFpsTimes(fps, pre)) * speed_multiplier.d <= StepCursor
              /\ StepCursor <= (events[i].frame + IntFpsTimes(fps, post)) * speed_multiplier.d}

KillClass == {"kill", "multi_kill", "first_blood", "last_kill"}
AllTypes == KillClass \cup {"spike_plant", "focal_point"}

\* C6 as stated: on every output step where the cursor lies inside the
\* pre/post window of at least one event (the window test that selects the
\* active event) the cursor advances by exactly 1.0; on every other step it
\* advances by the non-event speed multiplier.
C6_StepFollowsWindow ==
    Stepped =>
        IF WindowsAtStep(AllTypes) # {}
        THEN step = speed_multiplier.d
        ELSE step = speed_multiplier.n

\* E, N and T of section 4.8: the frame indices of the video covered by a
\* window [frame - pre, frame + post)
ClaimE ==
    Cardinality(UNION {
        LET pre  == IF events[j].type = "focal_point" THEN 5 ELSE 3
            post == IF events[j].type = "spike_plant" THEN 2 ELSE 3
        IN ((events[j].frame - IntFpsTimes(fps, pre))
               .. (events[j].frame + IntFpsTimes(fps, post) - 1))
           \cap (0 .. (total_frames - 1)) : j \in 1..Len(events)})

ClaimN == total_frames - ClaimE
ClaimT == (30 * fps.n) \div fps.d

SpeedComputed == pc \in {"loop", "rendered", "read_failed", "interrupted"}

\* C7: the non-event speed multiplier is N/(T-E) whenever T-E > 0, so that
\* (T-E)*multiplier = N, and is the fixed skip value 100 whenever T-E <= 0,
\* in which case rendering still proceeds: the loop runs and writes frames.
C7_SpeedMultiplier ==
    SpeedComputed =>
        /\ ClaimT - ClaimE > 0 =>
              (ClaimT - ClaimE) * speed_multiplier.n = ClaimN * speed_multiplier.d
        /\ ClaimT - ClaimE <= 0 =>
              /\ speed_multiplier.n = 100 * speed_multiplier.d
              /\ pc = "rendered" => output_frame_count > 0

\* the multiplier of a record with overlapping, clipped windows was computed
C7_Witness ==
    /\ pc = "loop"
    /\ ClaimT - ClaimE > 0
    /\ ClaimN > 0
    /\ Len(events) >= 2
    /\ ClaimE < 6 * Len(events)
    /\ speed_multiplier.n = ClaimN
    /\ speed_multiplier.d = ClaimT - ClaimE

\* the fallback multiplier was used and the run completed
C7_FallbackReached == pc = "rendered" /\ ClaimT - ClaimE <= 0 /\ output_frame_count > 0

\* the number of maximal runs of event or of non-event frames in the mask
MaskRuns ==
    Cardinality({i \in 0..(total_frames - 1) :
        i = 0 \/ ((i \in is_event_frame) # ((i - 1) \in is_event_frame))})

\* C8 as stated: when T-E > 0 and no frame read fails, the number of output
\* frames differs from T by at most one frame per contiguous run of event or
\* non-event frames in the mask.
C8_OutputLength ==
    (pc = "rendered" /\ ClaimT - ClaimE > 0) =>
        Abs(output_frame_count - ClaimT) <= MaskRuns

\* C9: a spike_plant or focal_point is never the active event while the
\* cursor lies in a kill-class window, a focal_point never while it lies in a
\* spike_plant window, and the active event is none exactly when no window
\* contains the cursor.
C9_ActivePriority ==
    Stepped =>
        /\ (active_event # 0 /\ events[active_event].type \in {"spike_plant", "focal_point"})
              => WindowsAtStep(KillClass) = {}
        /\ (active_event # 0 /\ events[active_event].type = "focal_point")
              => WindowsAtStep({"spike_plant"}) = {}
        /\ active_event = 0 <=> WindowsAtStep(AllTypes) = {}
        /\ active_event # 0 => active_event \in WindowsAtStep(AllTypes)

\* a kill is active while a plant window and a focal window hold the cursor
C9_Witness ==
    /\ Stepped
    /\ active_event # 0
    /\ events[active_event].type \in KillClass
    /\ WindowsAtStep({"spike_plant"}) # {}
    /\ WindowsAtStep({"focal_point"}) # {}

RenderOver == pc \in {"rendered", "read_failed", "interrupted"}

\* C10: the cursor strictly increases on each output step, and the loop ends
\* after finitely many steps, the cursor at or past the total frame count
\* unless a read failed or the user quit.
C10_Terminates ==
    /\ [][output_frame_count' # output_frame_count
            => current_input_frame' > current_input_frame]_vars
    /\ [](pc = "rendered" => current_input_frame >= total_frames * speed_multiplier.d)
    /\ <>RenderOver

\* a run in which every frame is an event frame (N = 0, multiplier 0) ran to
\* the end
C10_Witness ==
    /\ pc = "rendered"
    /\ output_frame_count > 0
    /\ ClaimN = 0
    /\ ClaimT - ClaimE > 0

----------------------------------------------------------------------------
(* The focal point attribution on every bounded trail and list of anchors *)

MaxAbilities == 3
MaxAnchors == 3
AbilityFrames == {0, 4, 10}
AnchorFrames == {8, 12, 20}
FocalFps == {[n |-> 5, d |-> 1]}

AbilityUniverse ==
    [frame : AbilityFrames, class : {"smoke_enemy", "fade_haunt_f"},
     x : {50, 58}, y : {50}]

\* the trails of at most MaxAbilities ability records, in frame order
AbilityTrails ==
    {t \in UNION {[1..n -> AbilityUniverse] : n \in 0..MaxAbilities} :
        \A i \in 1..(Len(t) - 1) : t[i].frame <= t[i+1].frame}

\* an anchor: a kill or the plant at a frame, with a position, or, at the
\* first frame, without one
AnchorSlots ==
    [frame : AnchorFrames, class : {"spike_plant", "kill"}, located : {TRUE}]
    \cup [frame : {8}, class : {"spike_plant", "kill"}, located : {FALSE}]

\* self.events before the attribution: the plant, then the kills by frame
AnchorBefore(a, b) ==
    \/ ClassRank(a.class) < ClassRank(b.class)
    \/ ClassRank(a.class) = ClassRank(b.class) /\ a.frame < b.frame

RECURSIVE AnchorSeq(_)
AnchorSeq(S) ==
    IF S = {} THEN <<>>
    ELSE LET m == CHOOSE a \in S : \A b \in S \ {a} : AnchorBefore(a, b)
         IN <<m>> \o AnchorSeq(S \ {m})

AnchorEvents(slots) ==
    LET KillsUpTo(i) == Cardinality({j \in 1..i : slots[j].class = "kill"})
        n            == KillsUpTo(Len(slots))
        pos(i)       == IF slots[i].located THEN [x |-> 52, y |-> 51] ELSE NoPos
    IN [i \in 1..Len(slots) |->
          [frame       |-> slots[i].frame,
           type        |-> IF slots[i].class = "kill" THEN KillTag(KillsUpTo(i), n)
                           ELSE "spike_plant",
           killer      |-> IF slots[i].class = "kill" THEN "jett_e" ELSE "Spike",
           victim      |-> IF slots[i].class = "kill" THEN "sage_f" ELSE "Site",
           k_pos       |-> IF slots[i].class = "kill" THEN NoPos ELSE pos(i),
           v_pos       |-> pos(i),
           type_detail |-> "",
           category    |-> ""]]

\* at most MaxAnchors anchors, one event per frame and class, at most one plant
AnchorLists ==
    {AnchorEvents(AnchorSeq(S)) :
        S \in {S \in SUBSET AnchorSlots :
                  /\ Cardinality(S) <= MaxAnchors
                  /\ Cardinality({a \in S : a.class = "spike_plant"}) <= 1
                  /\ \A a, b \in S : (a.frame = b.frame /\ a.class = b.class) => a = b}}

\* a 60 fps match: one cast at frame 1000, position (50,50), among records
\* that are no candidates for an event at frame 1200 (outside the window, or
\* no tactical ability) and a cast at frame 900 too far away to reach the
\* score floor
ScenarioFps == [n |-> 60, d |-> 1]
ScenarioCast == [frame |-> 1000, class |-> "smoke", x |-> 50, y |-> 50]
ScenarioRecords ==
    <<[frame |-> 500,  class |-> "smoke_enemy",  x |-> 52, y |-> 51],
      [frame |-> 900,  class |-> "smoke_enemy",  x |-> 250, y |-> 50],
      ScenarioCast,
      [frame |-> 1100, class |-> "jett_e",       x |-> 52, y |-> 51],
      [frame |-> 1195, class |-> "fade_haunt_f", x |-> 52, y |-> 51]>>

RECURSIVE PickRecords(_, _)
\* the records of ScenarioRecords at the indices S, in order
PickRecords(S, i) ==
    IF i > Len(ScenarioRecords) THEN <<>>
    ELSE (IF i \in S THEN <<ScenarioRecords[i]>> ELSE <<>>) \o PickRecords(S, i + 1)

ScenarioTrails == {PickRecords(S, 1) : S \in SUBSET (1..Len(ScenarioRecords))}

\* the kill and the plant at frame 1200, position (52,51)
ScenarioAnchors ==
    {AnchorEvents(AnchorSeq(S)) :
        S \in SUBSET {[frame |-> 1200, class |-> "kill", located |-> TRUE],
                      [frame |-> 1200, class |-> "spike_plant", located |-> TRUE]}}

InitFocal ==
    /\ pc = "focal"
    /\ \/ /\ fps \in FocalFps
          /\ total_frames = 21
          /\ trail_data \in AbilityTrails
          /\ events \in AnchorLists
       \/ /\ fps = ScenarioFps
          /\ total_frames = 1201
          /\ trail_data \in ScenarioTrails
          /\ events \in ScenarioAnchors
    /\ raw_detections = <<>>
    /\ confirmed_kills = <<>>
    /\ ScanOver
    /\ RenderIdle

NextFocal == AnalyzeFocalPoints \/ SaveMatchData

SpecFocal == InitFocal /\ [][NextFocal]_vars

----------------------------------------------------------------------------
(* Claims on the focal point attribution (SpecFocal) *)

FocalEvents == {i \in 1..Len(events) : events[i].type = "focal_point"}

Attributed == pc \in {"save", "analysed"}

\* C5 as stated: after _analyze_focal_points no two focal_point events have
\* the same type_detail and frames within 10 of each other (|f1 - f2| <= 10).
C5_FocalSpacing_AsStated ==
    Attributed =>
        \A i, j \in FocalEvents :
            (i # j /\ events[i].type_detail = events[j].type_detail)
                => Abs(events[i].frame - events[j].frame) > 10

\* C5 amended: after _analyze_focal_points no two focal_point events have the
\* same type_detail and frames less than 10 apart (|f1 - f2| < 10); two at
\* exactly 10 frames are both kept.
C5_FocalSpacing ==
    Attributed =>
        \A i, j \in FocalEvents :
            (i # j /\ events[i].type_detail = events[j].type_detail)
                => Abs(events[i].frame - events[j].frame) >= 10

\* two casts of one ability type were credited, and one attribution was
\* discarded as a repeat: fewer focal points than anchors whose best cast
\* scored above the floor
C5_Witness ==
    /\ pc = "save"
    /\ \E i, j \in FocalEvents :
          i # j /\ events[i].type_detail = events[j].type_detail
    /\ LET abilities == SelectSeq(trail_data, LAMBDA t : IsTactical(t.class))
           credited  == {i \in 1..Len(events) :
                            /\ events[i].type # "focal_point"
                            /\ AnchorPos(events[i]) # NoPos
                            /\ BestAbility(abilities, events[i], fps, 1, 0) # 0
                            /\ AboveScoreFloor(events[i],
                                  abilities[BestAbility(abilities, events[i], fps, 1, 0)], fps)}
       IN Cardinality(credited) > Cardinality(FocalEvents)

----------------------------------------------------------------------------
(* run_analysis: the frame loop.  A detection box is [class, conf, x, y, w,  *)
(* h]: conf in hundredths, the float coordinates x, y, w, h in half pixels,  *)
(* so that int(x) truncates.  A kill-log prediction is [class, x,            *)
(* confidence], x already truncated.                                         *)

kill_feed_coords == [x |-> 1207, y |-> 165, w |-> 440, h |-> 70]
spike_ui_coords  == [x |-> 748,  y |-> 96,  w |-> 162, h |-> 93]

LOW_CONF_LABELS ==
    {"astra_star_enemy", "astra_star_friend", "astra_ult_enemy", "fade_haunt_f",
     "fade_prowler_f", "smoke", "sova_drone_e", "sova_recon_e"}

\* int() of a coordinate given in half pixels
IntPx(v) == v \div 2

\* the per-label confidence gate and the size gate of the minimap loop
KeepsMapBox(box) ==
    /\ IF box.class \in LOW_CONF_LABELS THEN ~ (box.conf < 8) ELSE ~ (box.conf < 25)
    /\ ~ (box.w < 5 * 2 \/ box.h < 5 * 2)

\* obj_data of a kept box
TrailRecord(box, frame) ==
    [frame |-> frame, class |-> box.class, x |-> IntPx(box.x), y |-> IntPx(box.y)]

\* current_minimap_objs of a frame
MinimapObjs(boxes, frame) ==
    LET kept == SelectSeq(boxes, KeepsMapBox)
    IN [i \in 1..Len(kept) |-> TrailRecord(kept[i], frame)]

\* ky+kh <= h_img and kx+kw <= w_img
RegionFits(coords, shape) ==
    coords.y + coords.h <= shape.h /\ coords.x + coords.w <= shape.w

\* cls[-1], over the labels of the model
LastChar(cls) ==
    CASE cls \in {"jett_e", "reyna_e", "sova_drone_e", "sova_recon_e", "skye_dog_e",
                  "skye_bird_e", "smoke", "minimap_spike", "ui_spike_defuse"} -> "e"
      [] cls \in {"sage_f", "omen_f", "fade_haunt_f", "fade_prowler_f"}      -> "f"
      [] cls \in {"astra_star_enemy", "astra_ult_enemy", "smoke_enemy",
                  "viper_pit_enemy"}                                          -> "y"
      [] cls \in {"astra_star_friend", "astra_ult_friend", "smoke_friend",
                  "viper_pit_friend"}                                         -> "d"
      [] OTHER                                                                -> "t"

RECURSIVE InsertByX(_, _)
InsertByX(sorted, p) ==
    IF sorted = <<>> THEN <<p>>
    ELSE IF Head(sorted).x <= p.x
         THEN <<Head(sorted)>> \o InsertByX(Tail(sorted), p)
         ELSE <<p>> \o sorted

RECURSIVE SortByX(_)
\* sorted(preds, key=lambda x: x['x'])
SortByX(seq) ==
    IF seq = <<>> THEN <<>>
    ELSE InsertByX(SortByX(SubSeq(seq, 1, Len(seq) - 1)), seq[Len(seq)])

NoPair == [killer |-> "", victim |-> ""]

RECURSIVE BestPairFrom(_, _, _, _, _, _)
\* the two nested loops: i over killers, j over victims
BestPairFrom(killers, victims, i, j, best_pair, best_score) ==
    IF i > Len(killers) THEN best_pair
    ELSE IF j > Len(victims)
         THEN BestPairFrom(killers, victims, i + 1, 1, best_pair, best_score)
         ELSE LET k     == killers[i]
                  v     == victims[j]
                  score == k.confidence + v.confidence
              IN IF k = v \/ LastChar(k.class) = LastChar(v.class) \/ ~ (score > best_score)
                 THEN BestPairFrom(killers, victims, i, j + 1, best_pair, best_score)
                 ELSE BestPairFrom(killers, victims, i, j + 1,
                                   [killer |-> k.class, victim |-> v.class], score)

\* _find_best_kill_pair_strict; NoPair for None
FindBestKillPairStrict(pred_list) ==
    IF Len(pred_list) < 2 THEN NoPair
    ELSE LET row_sorted == SortByX(pred_list)
             min_x      == row_sorted[1].x
             max_x      == row_sorted[Len(row_sorted)].x
             IsKiller(q) == q.x < min_x + 40
             IsVictim(q) == q.x > max_x - 40
         IN IF (max_x - min_x) < 50 THEN NoPair
            ELSE BestPairFrom(SelectSeq(row_sorted, IsKiller),
                              SelectSeq(row_sorted, IsVictim), 1, 1, NoPair, -999)

\* the first minimap_spike of current_minimap_objs, NoPos for None
SpikePos(objs) ==
    LET IsSpike(o) == o.class = "minimap_spike"
        spikes     == SelectSeq(objs, IsSpike)
    IN IF spikes = <<>> THEN NoPos ELSE [x |-> spikes[1].x, y |-> spikes[1].y]

SpikeCheckDueEverySample(planted, frame) == frame % 3 = 0

\* not is_spike_planted and current_frame % 3 == 0
SpikeCheckDue(planted, frame) == ~ planted /\ frame % 3 = 0

\* is a plant confirmed on this frame
PlantConfirmed(ui_classes, objs) ==
    /\ \E i \in 1..Len(ui_classes) : ui_classes[i] = "ui_spike_plant"
    /\ SpikePos(objs) # NoPos
    /\ SpikePos(objs).y < 200

SpikeEvent(frame, spike_pos) ==
    [frame       |-> frame,
     type        |-> "spike_plant",
     killer      |-> "Spike",
     victim      |-> "Site",
     k_pos       |-> spike_pos,
     v_pos       |-> spike_pos,
     type_detail |-> "",
     category    |-> ""]

----------------------------------------------------------------------------
(* Whole runs of run_analysis on bounded videos *)

MaxRunFrames == 4
MaxBoxes == 2
MaxTrail == 2
RunFps == {[n |-> 2, d |-> 1]}
RunShapes == {[w |-> 1920, h |-> 1080], [w |-> 1280, h |-> 720]}

\* what the detector can report in the minimap of a frame
MapBoxUniverse ==
    {[class |-> "minimap_spike", conf |-> 60, x |-> 200, y |-> 300, w |-> 24, h |-> 24],
     [class |-> "minimap_spike", conf |-> 60, x |-> 200, y |-> 500, w |-> 24, h |-> 24],
     [class |-> "jett_e",        conf |-> 30, x |-> 105, y |-> 103, w |-> 24, h |-> 24],
     [class |-> "jett_e",        conf |-> 20, x |-> 107, y |-> 103, w |-> 24, h |-> 24],
     [class |-> "smoke",         conf |-> 10, x |-> 100, y |-> 100, w |-> 24, h |-> 24],
     [class |-> "smoke",         conf |-> 10, x |-> 100, y |-> 100, w |-> 9,  h |-> 24]}

MapBoxChoices == UNION {[1..n -> MapBoxUniverse] : n \in 0..MaxBoxes}

\* what the detector can report in the kill log of a sampled frame, at its
\* floor of 0.20
KillFeedChoices ==
    {<<>>,
     <<[class |-> "jett_e", x |-> 10, confidence |-> 90],
       [class |-> "sage_f", x |-> 300, confidence |-> 80]>>,
     <<[class |-> "sage_f", x |-> 310, confidence |-> 80],
       [class |-> "omen_f", x |-> 300, confidence |-> 85],
       [class |-> "jett_e", x |-> 10, confidence |-> 22]>>}

\* the classes the detector can report in the plant-status region
SpikeUiChoices == {<<>>, <<"ui_spike_plant">>, <<"ui_spike_defuse">>}

\* the kill log is read on this frame
KillDue == current_frame % 3 = 0 /\ RegionFits(kill_feed_coords, frame_shape)

\* the plant-status region is read on this frame
SpikeDue ==
    /\ SpikeCheckDue(is_spike_planted, current_frame)
    /\ RegionFits(spike_ui_coords, frame_shape)

\* the kill-log and plant-status predictions made on this frame
KillFeedRead == IF KillDue THEN KillFeedChoices ELSE {<<>>}
SpikeUiRead == IF SpikeDue THEN SpikeUiChoices ELSE {<<>>}

\* one pass of the frame loop in which the read succeeds
ScanFrame(boxes, k_results, ui_classes) ==
    /\ pc = "scan"
    /\ current_frame < total_frames
    /\ LET objs       == MinimapObjs(boxes, current_frame)
           kill_due   == KillDue
           spike_due  == SpikeDue
           pair       == FindBestKillPairStrict(k_results)
           planted    == spike_due /\ PlantConfirmed(ui_classes, objs)
       IN /\ Len(trail_data) + Len(objs) <= MaxTrail
          /\ ~ kill_due => k_results = <<>>
          /\ ~ spike_due => ui_classes = <<>>
          /\ trail_data' = trail_data \o objs
          /\ preds' = IF kill_due THEN k_results ELSE preds
          /\ raw_detections' =
                IF kill_due /\ pair # NoPair
                THEN Append(raw_detections,
                            [frame |-> current_frame, killer |-> pair.killer,
                             victim |-> pair.victim])
                ELSE raw_detections
          /\ events' = IF planted
                       THEN Append(events, SpikeEvent(current_frame, SpikePos(objs)))
                       ELSE events
          /\ is_spike_planted' = (is_spike_planted \/ planted)
    /\ current_frame' = current_frame + 1
    /\ UNCHANGED <<pc, fps, total_frames, frame_shape, confirmed_kills, render_vars>>

\* the frame loop ends: the frames are used up, or a read fails
EndScan ==
    /\ pc = "scan"
    /\ pc' = "classify"
    /\ UNCHANGED <<fps, total_frames, events, analysis_vars, render_vars>>

InitRun ==
    /\ pc = "scan"
    /\ fps \in RunFps
    /\ total_frames = MaxRunFrames
    /\ frame_shape \in RunShapes
    /\ current_frame = 0
    /\ is_spike_planted = FALSE
    /\ preds = <<>>
    /\ trail_data = <<>>
    /\ raw_detections = <<>>
    /\ confirmed_kills = <<>>
    /\ events = <<>>
    /\ RenderIdle

NextRun ==
    \/ \E boxes \in MapBoxChoices :
          \E k_results \in KillFeedRead :
              \E ui_classes \in SpikeUiRead : ScanFrame(boxes, k_results, ui_classes)
    \/ EndScan
    \/ ClassifySmokes
    \/ StabilizeKills
    \/ SequenceKills
    \/ AnalyzeFocalPoints
    \/ SaveMatchData

SpecRun == InitRun /\ [][NextRun]_vars

----------------------------------------------------------------------------
(* Claims on whole runs (SpecRun) *)

\* C2: across a full run the event list contains at most one spike_plant
\* event: once one is emitted the detector is terminal (is_spike_planted is
\* set) and no later frame emits another.
C2_SinglePlant ==
    /\ Cardinality(EventsOfType("spike_plant")) <= 1
    /\ EventsOfType("spike_plant") # {} => is_spike_planted

\* a run is over in which the plant was confirmed and a later sampled frame
\* showed a spike marker above the cutoff again
C2_Witness ==
    /\ pc = "analysed"
    /\ \E i \in EventsOfType("spike_plant") :
          \E j \in 1..Len(trail_data) :
              /\ trail_data[j].class = "minimap_spike"
              /\ trail_data[j].y < 200
              /\ trail_data[j].frame > events[i].frame
              /\ trail_data[j].frame % 3 = 0

\* the spike markers among the map detections kept on the current frame
SpikeMarkers(boxes) ==
    LET objs == MinimapObjs(boxes, current_frame)
    IN {i \in 1..Len(objs) : objs[i].class = "minimap_spike"}

\* a pass of the frame loop on a sampled frame, still waiting, in which the
\* plant-status UI is detected
UiSeenWhileWaiting(boxes, k_results, ui_classes) ==
    /\ ScanFrame(boxes, k_results, ui_classes)
    /\ current_frame % 3 = 0
    /\ ~ is_spike_planted
    /\ \E i \in 1..Len(ui_classes) : ui_classes[i] = "ui_spike_plant"

\* C11 as stated: on a sampled frame while still waiting and with the
\* plant-status UI detected, a spike_plant event is emitted at that frame,
\* carrying the marker position as k_pos and v_pos, exactly when the frame's
\* map detections contain a minimap_spike marker with y < 200.
C11_PlantTransition ==
    [][\A boxes \in MapBoxChoices : \A k_results \in KillFeedRead : \A ui_classes \in SpikeUiRead :
          UiSeenWhileWaiting(boxes, k_results, ui_classes) =>
              LET objs    == MinimapObjs(boxes, current_frame)
                  cutoff  == {i \in SpikeMarkers(boxes) : objs[i].y < 200}
              IN IF cutoff # {}
                 THEN \E i \in cutoff :
                         events' = Append(events,
                                          SpikeEvent(current_frame,
                                                     [x |-> objs[i].x, y |-> objs[i].y]))
                 ELSE events' = events]_vars

\* what the code does: the event is emitted exactly when the first
\* minimap_spike marker of the frame has y < 200, and carries its position
C11_FirstMarkerDecides ==
    [][\A boxes \in MapBoxChoices : \A k_results \in KillFeedRead : \A ui_classes \in SpikeUiRead :
          UiSeenWhileWaiting(boxes, k_results, ui_classes) =>
              LET objs    == MinimapObjs(boxes, current_frame)
                  markers == SpikeMarkers(boxes)
                  first   == CHOOSE i \in markers : \A j \in markers : i <= j
              IN IF markers # {} /\ objs[first].y < 200
                 THEN events' = Append(events,
                                       SpikeEvent(current_frame,
                                                  [x |-> objs[first].x, y |-> objs[first].y]))
                 ELSE events' = events]_vars

\* the confidence threshold of a label, in hundredths
LabelThreshold(cls) == IF cls \in LOW_CONF_LABELS THEN 8 ELSE 25

\* the trail records appended by the step
AppendedTrail == {trail_data'[j] : j \in (Len(trail_data) + 1)..Len(trail_data')}

\* no map detection below its label's threshold is appended to the trail
TrailGated(boxes) ==
    \A i \in 1..Len(boxes) :
        boxes[i].conf < LabelThreshold(boxes[i].class)
            => TrailRecord(boxes[i], current_frame) \notin AppendedTrail

\* C12 as stated: a detection whose confidence is below its label's
\* threshold (0.08 for the allow-list labels, 0.25 for every other label)
\* never appears in the trail and never appears in the batch of kill-log
\* detections handed to the pair finder.
C12_ThresholdGating ==
    [][\A boxes \in MapBoxChoices : \A k_results \in KillFeedRead : \A ui_classes \in SpikeUiRead :
          ScanFrame(boxes, k_results, ui_classes) =>
              /\ TrailGated(boxes)
              /\ \A i \in 1..Len(preds') :
                    ~ (preds'[i].confidence < LabelThreshold(preds'[i].class))]_vars

\* the trail half of C12, which the code keeps
C12_TrailGated ==
    [][\A boxes \in MapBoxChoices : \A k_results \in KillFeedRead : \A ui_classes \in SpikeUiRead :
          ScanFrame(boxes, k_results, ui_classes) => TrailGated(boxes)]_vars

\* a raw kill detection names a killer that the kill log reported below 0.25
C12_LowConfidenceKiller ==
    \E i \in 1..Len(raw_detections) :
        /\ raw_detections[i].killer = "jett_e"
        /\ raw_detections[i].victim = "omen_f"

----------------------------------------------------------------------------
(* Claims on the attribution rule (SpecFocal) *)

\* the tactical-ability records of the trail
Abilities == SelectSeq(trail_data, LAMBDA t : IsTactical(t.class))

\* the events an ability can be attributed to
Anchors ==
    {i \in 1..Len(events) : events[i].type # "focal_point" /\ AnchorPos(events[i]) # NoPos}

\* ability k of the list abilities is a candidate for the anchor i with no
\* candidate scoring higher
MaximalIn(abilities, i, k) ==
    /\ FocalCandidate(events[i], abilities[k], fps)
    /\ \A m \in 1..Len(abilities) :
          FocalCandidate(events[i], abilities[m], fps)
              => ~ ScoreGreater(events[i], abilities[m], abilities[k])

Maximal(i, k) == MaximalIn(Abilities, i, k)

\* ability k is what the rule attributes to the anchor i
CreditedIn(abilities, i, k) ==
    MaximalIn(abilities, i, k) /\ AboveScoreFloor(events[i], abilities[k], fps)

Credited(i, k) == CreditedIn(Abilities, i, k)

\* scenario C: the cast at frame 1000, position (50,50), and a kill at frame
\* 1200 anchored at (52,51), at 60 fps
ScenarioC ==
    /\ fps = ScenarioFps
    /\ \E j \in 1..Len(trail_data) : trail_data[j] = ScenarioCast
    /\ \E i \in Anchors : IsKillClass(events[i].type) /\ events[i].frame = 1200

C13_FloorReached ==
    /\ Attributed
    /\ FocalEvents = {}
    /\ \E i \in Anchors : \E k \in 1..Len(Abilities) :
          Maximal(i, k) /\ ~ AboveScoreFloor(events[i], Abilities[k], fps)

\* scenario C ran to the end
C13_ScenarioCReached ==
    /\ pc = "analysed"
    /\ ScenarioC
    /\ \E e \in FocalEvents : events[e] = FocalEvent(ScenarioCast)

\* ability k lies 1 to 10 seconds before the anchor i and reaches the floor
Reaches(i, k) ==
    /\ InFocalWindow(events[i].frame - Abilities[k].frame, fps)
    /\ AboveScoreFloor(events[i], Abilities[k], fps)

PlantAnchors == {i \in Anchors : events[i].type = "spike_plant"}
KillAnchors == {i \in Anchors : IsKillClass(events[i].type)}

\* C14: a friendly-tagged ability (label containing "friend" or ending in
\* "_f") is never attributed to a spike_plant: a friendly focal_point lies in
\* the window of a kill-class anchor; enemy-tagged and plain "smoke" records
\* stay eligible for a plant, and friendly records stay eligible for a kill.
C14_PlantExcludesFriendly ==
    Attributed =>
        /\ \A e \in FocalEvents :
              IsFriendlyTagged(events[e].type_detail)
                  => \E i \in KillAnchors :
                        InFocalWindow(events[i].frame - events[e].frame, fps)
        /\ \A i \in PlantAnchors :
              (\E k \in 1..Len(Abilities) :
                    Reaches(i, k) /\ ~ IsFriendlyTagged(Abilities[k].class))
                  => \E e \in FocalEvents : ~ IsFriendlyTagged(events[e].type_detail)
        /\ \A i \in KillAnchors :
              (\E k \in 1..Len(Abilities) : Reaches(i, k)) => FocalEvents # {}

\* the only anchor is a plant; a friendly cast scores higher for it than
\* every enemy cast, and an enemy cast is credited
C14_Witness ==
    /\ Attributed
    /\ KillAnchors = {}
    /\ \E i \in PlantAnchors : \E k \in 1..Len(Abilities) :
          /\ IsFriendlyTagged(Abilities[k].class)
          /\ Reaches(i, k)
          /\ \A m \in 1..Len(Abilities) :
                (m # k /\ InFocalWindow(events[i].frame - Abilities[m].frame, fps))
                    => ScoreGreater(events[i], Abilities[k], Abilities[m])
    /\ \E e \in FocalEvents : events[e].type_detail = "smoke_enemy"

\* a plain "smoke" cast was credited to a plant
C14_SmokeCredited ==
    /\ Attributed
    /\ KillAnchors = {}
    /\ PlantAnchors # {}
    /\ \E e \in FocalEvents : events[e].type_detail = "smoke"

\* a friendly cast was credited to a kill
C14_FriendlyCredited ==
    /\ Attributed
    /\ PlantAnchors = {}
    /\ \E e \in FocalEvents : IsFriendlyTagged(events[e].type_detail)

----------------------------------------------------------------------------
(* _classify_smokes on every bounded trail of smokes and star markers *)

MaxSmokeRecords == 3
SmokeFps == {[n |-> 2, d |-> 1], [n |-> 5, d |-> 2]}

\* smokes at (50,50) and star markers of both factions around them: at
\* distance 10 twice, at 6, and at exactly 30; frames before, at the edge of,
\* inside and after the 5 second look-back of a smoke at frame 20
SmokeUniverse ==
    [frame : {20, 21}, class : {"smoke"}, x : {50}, y : {50}]
    \cup {[frame |-> fr, class |-> c, x |-> p[1], y |-> p[2]] :
            fr \in {9, 10, 20, 21},
            c \in {"astra_star_friend", "astra_star_enemy"},
            p \in {<<60, 50>>, <<50, 60>>, <<56, 50>>, <<80, 50>>}}

\* trail is a trail of at most MaxSmokeRecords records in frame order
IsSmokeTrail(trail) ==
    \E n \in 0..MaxSmokeRecords :
        \E t \in [1..n -> SmokeUniverse] :
            /\ \A i \in 1..(n - 1) : t[i].frame <= t[i+1].frame
            /\ trail = t

InitSmokes ==
    /\ pc = "classify"
    /\ fps \in SmokeFps
    /\ total_frames = 22
    /\ IsSmokeTrail(trail_data)
    /\ raw_detections = <<>>
    /\ confirmed_kills = <<>>
    /\ events = <<>>
    /\ ScanOver
    /\ RenderIdle

NextSmokes == ClassifySmokes

SpecSmokes == InitSmokes /\ [][NextSmokes]_vars

\* the star markers that can decide the smoke at index j: frame in
\* [f - int(5*fps), f], distance < 30
StarsInReach(j) ==
    {i \in 1..Len(trail_data) :
        /\ trail_data[i].class \in {"astra_star_friend", "astra_star_enemy"}
        /\ trail_data[j].frame - IntFpsTimes(fps, 5) <= trail_data[i].frame
        /\ trail_data[i].frame <= trail_data[j].frame
        /\ DistSq(trail_data[j], trail_data[i]) < 900}

\* the nearest of them
NearestInReach(j) ==
    {i \in StarsInReach(j) :
        \A m \in StarsInReach(j) :
            DistSq(trail_data[j], trail_data[i]) <= DistSq(trail_data[j], trail_data[m])}

\* C15: _classify_smokes leaves the trail's length, order and every record's
\* frame and position unchanged and changes only the label of records
\* labelled "smoke": to smoke_friend or smoke_enemy after the faction of the
\* nearest astra_star marker with frame in [f - int(5*fps), f] and distance
\* < 30, friendly on an exact tie, and not at all when there is no such marker.
C15_SmokeRelabel ==
    [][pc = "classify" =>
          /\ Len(trail_data') = Len(trail_data)
          /\ \A j \in 1..Len(trail_data) :
                /\ trail_data'[j].frame = trail_data[j].frame
                /\ trail_data'[j].x = trail_data[j].x
                /\ trail_data'[j].y = trail_data[j].y
                /\ trail_data'[j].class =
                      IF trail_data[j].class # "smoke" \/ StarsInReach(j) = {}
                      THEN trail_data[j].class
                      ELSE IF \E i \in NearestInReach(j) :
                                  trail_data[i].class = "astra_star_friend"
                           THEN "smoke_friend"
                           ELSE "smoke_enemy"]_vars

\* a friendly and an enemy star were equally near a smoke, which became
\* smoke_friend; the enemy star stands before the friendly one in the trail
C15_Witness ==
    /\ pc = "stabilize"
    /\ \E j, i, m \in 1..Len(trail_data) :
          /\ trail_data[j].class = "smoke_friend"
          /\ m < i
          /\ trail_data[i].class = "astra_star_friend"
          /\ trail_data[m].class = "astra_star_enemy"
          /\ trail_data[i].frame = trail_data[j].frame
          /\ trail_data[m].frame = trail_data[j].frame
          /\ DistSq(trail_data[j], trail_data[i]) = 100
          /\ DistSq(trail_data[j], trail_data[m]) = 100

----------------------------------------------------------------------------
(* _find_best_kill_pair_strict on every bounded kill-log batch: the one      *)
(* frame of a one-frame video                                                *)

MaxPreds == 4

\* kill-log detections: icons of both factions at the left edge (10), on the
\* edge of the right 40 px cluster (20), inside both clusters (30) and at the
\* right edge (60); the enemy icon at two confidences
PredUniverse ==
    [class : {"jett_e"}, x : {10, 20, 30, 60}, confidence : {50, 70}]
    \cup [class : {"sage_f"}, x : {10, 20, 30, 60}, confidence : {70}]
    \cup [class : {"reyna_e"}, x : {10}, confidence : {70}]

InitPair ==
    /\ pc = "scan"
    /\ fps = [n |-> 2, d |-> 1]
    /\ total_frames = 1
    /\ frame_shape = [w |-> 1920, h |-> 1080]
    /\ current_frame = 0
    /\ is_spike_planted = FALSE
    /\ preds = <<>>
    /\ trail_data = <<>>
    /\ raw_detections = <<>>
    /\ confirmed_kills = <<>>
    /\ events = <<>>
    /\ RenderIdle

NextPair ==
    \/ /\ current_frame < total_frames
       /\ \E n \in 0..MaxPreds : \E k_results \in [1..n -> PredUniverse] :
             ScanFrame(<<>>, k_results, <<>>)
    \/ EndScan

SpecPair == InitPair /\ [][NextPair]_vars

\* the frame was read
PairDone == current_frame = 1

PredXs == {preds[i].x : i \in 1..Len(preds)}
MinX == CHOOSE x \in PredXs : \A y \in PredXs : x <= y
MaxX == CHOOSE x \in PredXs : \A y \in PredXs : y <= x

\* detection i stands before detection j in the x-sorted batch
BeforeInRow(i, j) == preds[i].x < preds[j].x \/ (preds[i].x = preds[j].x /\ i < j)

\* killer i and victim j are a pair the claim admits
Admitted(i, j) ==
    /\ preds[i].x < MinX + 40
    /\ preds[j].x > MaxX - 40
    /\ LastChar(preds[i].class) # LastChar(preds[j].class)

AdmittedPairs == {q \in (1..Len(preds)) \X (1..Len(preds)) : Admitted(q[1], q[2])}

\* the admitted pair of greatest summed confidence, the first of them in the
\* iteration order of the sorted batch
FirstBest(q) ==
    /\ q \in AdmittedPairs
    /\ \A r \in AdmittedPairs \ {q} :
          LET sq == preds[q[1]].confidence + preds[q[2]].confidence
              sr == preds[r[1]].confidence + preds[r[2]].confidence
          IN \/ sr < sq
             \/ /\ sr = sq
                /\ \/ BeforeInRow(q[1], r[1])
                   \/ q[1] = r[1] /\ BeforeInRow(q[2], r[2])

\* the function's result for the batch is the pair q
Returned(q) ==
    raw_detections = <<[frame  |-> 0,
                        killer |-> preds[q[1]].class,
                        victim |-> preds[q[2]].class]>>

\* C16 as stated: no pair for fewer than two detections or a spread under
\* 50; otherwise the admitted pair (killer x < min_x + 40, victim x > max_x
\* - 40, labels ending in different characters) of greatest summed
\* confidence, the first maximum in sorted order, and no pair when none is
\* admitted; killer and victim of a returned pair are distinct detections
\* and the killer is strictly left of the victim.
C16_BestKillPair ==
    PairDone =>
        IF Len(preds) < 2 \/ MaxX - MinX < 50 \/ AdmittedPairs = {}
        THEN raw_detections = <<>>
        ELSE \E q \in AdmittedPairs :
                /\ FirstBest(q)
                /\ Returned(q)
                /\ q[1] # q[2]
                /\ preds[q[1]].x < preds[q[2]].x

\* the selection rule alone, which the code keeps
C16_SelectionRule ==
    PairDone =>
        IF Len(preds) < 2 \/ MaxX - MinX < 50 \/ AdmittedPairs = {}
        THEN raw_detections = <<>>
        ELSE \E q \in AdmittedPairs : FirstBest(q) /\ Returned(q) /\ q[1] # q[2]

\* a pair was returned whose killer is not left of its victim
C16_KillerRightOfVictim ==
    /\ PairDone
    /\ \E q \in AdmittedPairs :
          FirstBest(q) /\ Returned(q) /\ preds[q[2]].x <= preds[q[1]].x

----------------------------------------------------------------------------
(* The stabilizer and the sequencer on kills that were each logged twice:    *)
(* the kill log is read every third frame, so a kill sighted at frame F      *)
(* leaves the raw detections of frames F - 3 and F                           *)

MaxKills == 4
SeqFrames == {3, 9, 15, 24, 30}
SeqFps == {[n |-> 3, d |-> 1], [n |-> 5, d |-> 2], [n |-> 5, d |-> 1]}
\* three victims, so that a killer's two kills can have another killer's kill
\* between them without being merged or dropped as a repeat
SeqPairs == KillerLabels \X (VictimLabels \cup {"fade_f"})

\* the raw detections of the sightings at the frames fs of the pairs ps
SightedRaw(fs, ps) ==
    [i \in 1..(2 * Len(fs)) |->
        LET k == (i + 1) \div 2
        IN [frame  |-> IF i % 2 = 1 THEN fs[k] - 3 ELSE fs[k],
            killer |-> ps[k][1],
            victim |-> ps[k][2]]]

\* raw is the raw detection list of at most MaxKills sightings
IsSightedInput(raw) ==
    \E n \in 0..MaxKills :
        \E fs \in [1..n -> SeqFrames] :
            /\ \A i \in 1..(n - 1) : fs[i] < fs[i+1]
            /\ \E ps \in [1..n -> SeqPairs] : raw = SightedRaw(fs, ps)

InitSeq ==
    /\ RenderIdle
    /\ pc = "stabilize"
    /\ fps \in SeqFps
    /\ total_frames = 31
    /\ trail_data = <<>>
    /\ IsSightedInput(raw_detections)
    /\ confirmed_kills = <<>>
    /\ events = <<>>
    /\ ScanOver

NextSeq == StabilizeKills \/ SequenceKills \/ AnalyzeFocalPoints \/ SaveMatchData

SpecSeq == InitSeq /\ [][NextSeq]_vars

\* the confirmed kills that are neither the first nor the last by frame
InteriorKills == {i \in 1..Len(confirmed_kills) : 1 < i /\ i < Len(confirmed_kills)}

\* the earlier confirmed kills of the killer of the i-th
EarlierBySameKiller(i) ==
    {j \in 1..(i-1) : confirmed_kills[j].killer = confirmed_kills[i].killer}

\* the killer's previous confirmed kill is less than 3*fps frames earlier
InCooldown(i) ==
    /\ EarlierBySameKiller(i) # {}
    /\ LET prev == CHOOSE j \in EarlierBySameKiller(i) :
                       \A h \in EarlierBySameKiller(i) : h <= j
       IN (confirmed_kills[i].frame - confirmed_kills[prev].frame) * fps.d < 3 * fps.n

\* the events that report the kill k, whatever their type
EventsAtKill(k) ==
    {i \in 1..Len(events) :
        /\ events[i].type # "focal_point"
        /\ events[i].frame = k.frame
        /\ events[i].killer = k.killer
        /\ events[i].victim = k.victim}

\* C18: a confirmed kill that is neither first nor last by frame is emitted
\* as multi_kill exactly when the same killer's previous confirmed kill (the
\* first kill included) is less than 3*fps frames earlier; every other
\* interior kill is a plain kill and is never written to the event list, so
\* the event list holds no event of type "kill".
C18_InteriorKills ==
    Sequenced =>
        /\ \A i \in InteriorKills :
              IF InCooldown(i)
              THEN /\ Cardinality(EventsAtKill(confirmed_kills[i])) = 1
                   /\ EventsOfKill(confirmed_kills[i], "multi_kill") # {}
              ELSE EventsAtKill(confirmed_kills[i]) = {}
        /\ Cardinality(EventsOfType("multi_kill"))
              = Cardinality({i \in InteriorKills : InCooldown(i)})
        /\ EventsOfType("kill") = {}

\* of four confirmed kills one interior kill was written as multi_kill, its
\* killer's previous kill being the first and not the kill just before it,
\* and the other was left out
C18_Witness ==
    /\ pc = "analysed"
    /\ Len(confirmed_kills) = 4
    /\ \E i \in InteriorKills :
          /\ InCooldown(i)
          /\ EarlierBySameKiller(i) = {1}
          /\ i = 3
          /\ EventsOfKill(confirmed_kills[i], "multi_kill") # {}
    /\ \E i \in InteriorKills :
          ~ InCooldown(i) /\ EventsAtKill(confirmed_kills[i]) = {}

----------------------------------------------------------------------------
(* The non-event steps of the renderer (SpecRender) *)

\* the input frame the cursor c, in units of 1 / speed_multiplier.d, reads
FrameOf(c) == c \div speed_multiplier.d

\* this pass of the loop wrote a frame outside the mask and stepped by the
\* speed multiplier
NonEventStep ==
    /\ pc = "loop"
    /\ output_frame_count' = output_frame_count + 1
    /\ ~ in_event'

\* the mask frames the step of this pass jumps over
FramesJumped ==
    {f \in is_event_frame :
        FrameOf(current_input_frame) < f /\ f < FrameOf(current_input_frame')}

\* C19: in a render run with no read failure every input frame flagged in
\* the event mask is emitted as one output frame: a time-compressed non-event
\* step never carries the cursor past an event frame or into the middle of an
\* event window, whatever the speed multiplier.
C19_NoEventFrameSkipped == [][NonEventStep => FramesJumped = {}]_vars

\* a completed run that never failed a read wrote fewer frames than the mask
\* flags
C19_EventFramesLost ==
    /\ pc = "rendered"
    /\ output_frame_count < Cardinality(is_event_frame)

====
